---- MODULE Spec2Model ----
(***************************************************************************)
(* A model of the ReusableForm component (src/src/ReusableForm.tsx): the   *)
(* form state store (handleChange, handleAddRepeatable,                    *)
(* handleRemoveRepeatable), the visibility filter, the tab grouping, the   *)
(* Joi validation run by handleSubmit and the error map it writes.         *)
(*                                                                         *)
(* The file holds two copies of the component: the current one (lines      *)
(* 1-508) and an earlier one (lines 510-892) that has no validation and    *)
(* whose handleAddRepeatable appends a hard-coded record.  The variable    *)
(* `legacy` says which copy is mounted.                                    *)
(***************************************************************************)
EXTENDS Integers, Sequences, FiniteSets, TLC

(***************************************************************************)
(* Bounds of the model.                                                    *)
(***************************************************************************)
\* the longest array a handler is given to grow (indices 0..MaxLen-1)
MaxLen == 2

(***************************************************************************)
(* JavaScript values.  Every value is a tagged record so that values of    *)
(* different kinds can be compared.                                        *)
(***************************************************************************)
undefined == [t |-> "undefined"]
\* an index of a sparse array that holds no property at all
Hole == [t |-> "hole"]
Str(s) == [t |-> "string", v |-> s]
Bool(b) == [t |-> "boolean", v |-> b]
Arr(e) == [t |-> "array", e |-> e]
\* an object whose keys are among the nested keys; f[n] = undefined: no key n
Obj(f) == [t |-> "object", f |-> f]

\* the keys of the form state and of an entry of a repeatable group
Keys == {"email", "notes", "education", "title"}
NestedKeys == {"school", "year", "finished"}

\* `index: number | null = null`, `nestedKey: string | null = null`
NullIndex == -1
NullKey == ""

EmptyRecord == Obj([n \in NestedKeys |-> undefined])
\* { year: '', school: '', finished: false }
LegacyRecord == Obj([n \in NestedKeys |->
                      IF n = "finished" THEN Bool(FALSE) ELSE Str("")])

IsArray(v) == v.t = "array"
IsObject(v) == v.t = "object"

\* ToBoolean, as `!x`, `x || y` and `x ? a : b` apply it
Truthy(v) ==
  CASE v.t = "undefined" -> FALSE
    [] v.t = "hole"      -> FALSE
    [] v.t = "string"    -> v.v # ""
    [] v.t = "boolean"   -> v.v
    [] OTHER             -> TRUE

\* arr[index] (0-based): a hole and an index past the end read as undefined
ReadIndex(e, index) ==
  IF index < Len(e) /\ e[index + 1] # Hole THEN e[index + 1] ELSE undefined

\* arr[index] = v (0-based): an index past the end leaves holes below it
Holes(n) == [i \in 1..n |-> Hole]
WriteIndex(e, index, v) ==
  IF index < Len(e) THEN [e EXCEPT ![index + 1] = v]
  ELSE e \o Holes(index - Len(e)) \o <<v>>

\* [...arr]: the array iterator reads every index, so a hole becomes undefined
Spread(arr) == [i \in 1..Len(arr.e) |-> ReadIndex(arr.e, i - 1)]

\* arr.filter((_, i) => i !== index): filter visits only the indices that hold
\* a property, so holes are dropped whatever their index
RECURSIVE FilterFrom(_, _, _)
FilterFrom(e, index, i) ==
  IF i >= Len(e) THEN <<>>
  ELSE (IF e[i + 1] # Hole /\ i # index THEN <<e[i + 1]>> ELSE <<>>)
         \o FilterFrom(e, index, i + 1)
FilterOut(e, index) == FilterFrom(e, index, 0)

\* { ...entry, [nestedKey]: value }, entry an object
MergeInto(entry, nestedKey, value) == Obj([entry.f EXCEPT ![nestedKey] = value])

(***************************************************************************)
(* The form state store.  Each operator is the updater the handler passes  *)
(* to setFormData: it maps the previous state to the next one.             *)
(***************************************************************************)
\* handleChange without the spread of line 124: the entry is replaced
handleChangeNoMerge(prev, name, value, index, nestedKey) ==
  IF index # NullIndex
  THEN LET arr0 == IF IsArray(prev[name]) THEN prev[name].e ELSE <<>>
           entry == IF nestedKey # NullKey
                    THEN MergeInto(EmptyRecord, nestedKey, value)
                    ELSE value
       IN  [prev EXCEPT ![name] = Arr(WriteIndex(arr0, index, entry))]
  ELSE [prev EXCEPT ![name] = value]

\* handleChange's updater, lines 113-134
handleChange(prev, name, value, index, nestedKey) ==
  IF index # NullIndex
  THEN LET arr0 == IF IsArray(prev[name]) THEN prev[name].e ELSE <<>>
           arr1 == IF ~Truthy(ReadIndex(arr0, index))
                   THEN WriteIndex(arr0, index, EmptyRecord)
                   ELSE arr0
           arr2 == IF nestedKey # NullKey
                   THEN WriteIndex(arr1, index,
                          MergeInto(ReadIndex(arr1, index), nestedKey, value))
                   ELSE WriteIndex(arr1, index, value)
       IN  [prev EXCEPT ![name] = Arr(arr2)]
  ELSE [prev EXCEPT ![name] = value]

\* updatedData[name][index] = ... writes into the array of the previous
\* snapshot whenever that snapshot holds an array at name ({ ...prev } copies
\* the reference, line 114); otherwise line 117 makes a new array
WritesInPlace(prev, name, index) == index # NullIndex /\ IsArray(prev[name])

\* handleAddRepeatable's updater, lines 138-142 (629-633 in the earlier copy)
handleAddRepeatable(prev, name, isLegacy) ==
  [prev EXCEPT ![name] =
     Arr(Spread(IF Truthy(prev[name]) THEN prev[name] ELSE Arr(<<>>))
           \o <<IF isLegacy THEN LegacyRecord ELSE EmptyRecord>>)]

\* prev[name].filter is a TypeError unless prev[name] is an array
RemoveThrows(prev, name) == ~IsArray(prev[name])

\* handleRemoveRepeatable's updater, lines 146-149
handleRemoveRepeatable(prev, name, index) ==
  [prev EXCEPT ![name] = Arr(FilterOut(prev[name].e, index))]

(***************************************************************************)
(* Field descriptors (interface Field, lines 23-57).  An optional property *)
(* is <<>> when absent and <<v>> when present.                             *)
(***************************************************************************)
Has(opt) == opt # <<>>
Val(opt) == opt[1]
\* opt ?? default
Coalesce(opt, default) == IF Has(opt) THEN Val(opt) ELSE default

\* the predicates the descriptors of this model carry as show / hide
EvalPredicate(p, data) ==
  CASE p = "emailFilled"   -> Truthy(data["email"])
    [] p = "educationFull" -> IsArray(data["education"])
                                /\ Len(data["education"].e) >= 2
    [] p = "educationStarted" -> IsArray(data["education"])
                                   /\ Len(data["education"].e) >= 1

\* the rules of this model: "required" (Joi.string().required()) and
\* "requiredArray" (Joi.array().required())
Nested(key, rule) == [key |-> key, rule |-> rule]
Field(key, rule, show, hide, tab) ==
  [key |-> key, rule |-> rule, show |-> show, hide |-> hide, tab |-> tab,
   repeatable |-> FALSE, fields |-> <<>>, min |-> <<>>, max |-> <<>>,
   deletable |-> <<>>, addable |-> <<>>]
Repeatable(key, rule, show, hide, tab, nested, min, max) ==
  [key |-> key, rule |-> rule, show |-> show, hide |-> hide, tab |-> tab,
   repeatable |-> TRUE, fields |-> <<nested>>, min |-> min, max |-> max,
   deletable |-> <<>>, addable |-> <<>>]

\* the `fields` prop of the current component; limits holds the min and the
\* max of its repeatable descriptor (read at line 158)
CurrentFields(limits) ==
  << Field("email", <<"required">>, <<>>, <<>>, <<>>),
     Field("notes", <<>>, <<>>, <<"educationStarted">>, <<"2">>),
     Repeatable("education", <<"requiredArray">>, <<"emailFilled">>,
                <<"educationFull">>, <<"1">>,
                << Nested("school", <<"required">>), Nested("year", <<>>) >>,
                limits.min, limits.max),
     Field("title", <<>>, <<"emailFilled">>, <<"educationStarted">>, <<"2">>) >>

\* the earlier copy's Field (lines 531-553) has no rule, min or max
StripRules(f) ==
  [f EXCEPT !.rule = <<>>, !.min = <<>>, !.max = <<>>,
            !.fields = IF Has(f.fields)
                       THEN << [i \in 1..Len(Val(f.fields)) |->
                                  Nested(Val(f.fields)[i].key, <<>>)] >>
                       ELSE <<>>]
NoLimits == [min |-> <<>>, max |-> <<>>]
LegacyFields ==
  [i \in 1..Len(CurrentFields(NoLimits)) |-> StripRules(CurrentFields(NoLimits)[i])]
FieldsOf(isLegacy, limits) ==
  IF isLegacy THEN LegacyFields ELSE CurrentFields(limits)

(***************************************************************************)
(* Visibility and tab grouping, recomputed by every render (lines 79-105). *)
(***************************************************************************)
\* Visible with show taking precedence over hide
VisibleShowWins(field, data) ==
  IF Has(field.show) THEN EvalPredicate(Val(field.show), data)
  ELSE ~(Has(field.hide) /\ EvalPredicate(Val(field.hide), data))

\* lines 80-82 (and 212-214, 385-389)
Visible(field, data) ==
  LET shouldShow == IF Has(field.show) THEN EvalPredicate(Val(field.show), data)
                    ELSE TRUE
      shouldHide == IF Has(field.hide) THEN EvalPredicate(Val(field.hide), data)
                    ELSE FALSE
  IN  shouldShow /\ ~shouldHide

\* fields.filter(...), lines 79-83: the visible fields, in order
RECURSIVE FilterFields(_, _)
FilterFields(fs, data) ==
  IF fs = <<>> THEN <<>>
  ELSE (IF Visible(Head(fs), data) THEN <<Head(fs)>> ELSE <<>>)
         \o FilterFields(Tail(fs), data)

\* the decimal digits, in order
Digits == <<"0", "1", "2", "3", "4", "5", "6", "7", "8", "9">>

\* line 86
HasTabs(filtered) == \E i \in 1..Len(filtered) : Has(filtered[i].tab)

\* the property names of tabbedFields in the order in which the reduce of
\* lines 89-97 creates them
RECURSIVE TabsInserted(_)
TabsInserted(filtered) ==
  IF filtered = <<>> THEN <<>>
  ELSE LET rest == TabsInserted(Tail(filtered))
           f == Head(filtered)
       IN  IF Has(f.tab)
           THEN <<Val(f.tab)>> \o SelectSeq(rest, LAMBDA t : t # Val(f.tab))
           ELSE rest

\* a property name that is an integer index (here: of one digit)
IntegerLike(t) == \E d \in 1..Len(Digits) : Digits[d] = t
NumberOf(t) == (CHOOSE d \in 1..Len(Digits) : Digits[d] = t) - 1

\* Object.keys of an object whose properties were created in the order
\* `inserted`: integer-like names first, in ascending numeric order, then
\* the other names in creation order
ObjectKeys(inserted) ==
  SortSeq(SelectSeq(inserted, IntegerLike),
          LAMBDA a, b : NumberOf(a) < NumberOf(b))
    \o SelectSeq(inserted, LAMBDA t : ~IntegerLike(t))

\* Object.keys(tabbedFields), lines 103 and 489
TabNames(filtered) == ObjectKeys(TabsInserted(filtered))

\* tabbedFields[tab], lines 89-97
TabGroup(filtered, tab) ==
  SelectSeq(filtered, LAMBDA f : Has(f.tab) /\ Val(f.tab) = tab)

\* the effect, had it also left a tab whose group is no longer rendered
TabEffectFollowsGroups(filtered, active) ==
  IF HasTabs(filtered)
       /\ (~Has(active)
             \/ \A i \in 1..Len(TabNames(filtered)) : TabNames(filtered)[i] # Val(active))
  THEN <<TabNames(filtered)[1]>> ELSE active

\* the effect of lines 101-105, run after a render with `active` as activeTab
TabEffect(filtered, active) ==
  IF HasTabs(filtered) /\ ~Has(active) THEN <<TabNames(filtered)[1]>> ELSE active

(***************************************************************************)
(* Validation (lines 155-176).  Joi is modelled by what the calls made     *)
(* here do: object keys are optional unless their rule says required, an   *)
(* array schema checks its items first and its length bounds after, and    *)
(* with abortEarly: false every violation is reported.                     *)
(***************************************************************************)
DefaultMin == 0
DefaultMax == 1000

NoSchema == [kind |-> "none"]
\* the reducer of lines 156-172 applied to one field
SchemaOfField(field) ==
  IF field.repeatable /\ Has(field.fields)
  THEN [kind |-> "array",
        min |-> Coalesce(field.min, DefaultMin),
        max |-> Coalesce(field.max, DefaultMax),
        items |-> SelectSeq(Val(field.fields), LAMBDA nf : Has(nf.rule))]
  ELSE IF Has(field.rule)
       THEN [kind |-> "rule", rule |-> Val(field.rule)]
       ELSE NoSchema

\* acc after the reduce of lines 156-172: the schema registered for each key
\* (a later field of the same key replaces an earlier one)
RECURSIVE BuildSchema(_, _)
BuildSchema(fs, acc) ==
  IF fs = <<>> THEN acc
  ELSE LET f == Head(fs)
           s == SchemaOfField(f)
       IN  BuildSchema(Tail(fs),
             IF s = NoSchema THEN acc ELSE [acc EXCEPT ![f.key] = s])
Schema(fs) == BuildSchema(fs, [k \in Keys |-> NoSchema])

\* the order in which Joi visits the keys of the object schema: the order in
\* which the reducer inserted them
RECURSIVE SchemaKeys(_)
SchemaKeys(fs) ==
  IF fs = <<>> THEN <<>>
  ELSE LET rest == SchemaKeys(Tail(fs))
           f == Head(fs)
       IN  IF SchemaOfField(f) = NoSchema THEN rest
           ELSE <<f.key>> \o SelectSeq(rest, LAMBDA k : k # f.key)

\* a segment of a Joi error path: an object key or an array index
KeySeg(k) == [s |-> k]
IndexSeg(i) == [n |-> i]
Detail(path, message) == [path |-> path, message |-> message]

\* a rule on one value: "required" is Joi.string().required() and
\* "requiredArray" is Joi.array().required()
ValidateRule(rule, v, path) ==
  CASE v.t = "undefined" -> <<Detail(path, "any.required")>>
    [] rule = "requiredArray" -> IF IsArray(v) THEN <<>>
                                 ELSE <<Detail(path, "array.base")>>
    [] v.t = "string"    -> IF v.v = "" THEN <<Detail(path, "string.empty")>>
                            ELSE <<>>
    [] OTHER             -> <<Detail(path, "string.base")>>

\* Joi.object({...}).unknown() on one item of the array
RECURSIVE ValidateItemKeys(_, _, _)
ValidateItemKeys(items, entry, path) ==
  IF items = <<>> THEN <<>>
  ELSE ValidateRule(Val(Head(items).rule), entry.f[Head(items).key],
                    Append(path, KeySeg(Head(items).key)))
         \o ValidateItemKeys(Tail(items), entry, path)

ValidateItem(items, item, path) ==
  CASE item.t = "undefined" -> <<Detail(path, "array.sparse")>>
    [] item.t = "object"    -> ValidateItemKeys(items, item, path)
    [] OTHER                -> <<Detail(path, "object.base")>>

\* the items of the array up to the first one that fails (abortEarly: true)
RECURSIVE ValidateItemsAbortEarly(_, _, _, _)
ValidateItemsAbortEarly(items, e, path, i) ==
  IF i >= Len(e) THEN <<>>
  ELSE LET here == ValidateItem(items, ReadIndex(e, i), Append(path, IndexSeg(i)))
       IN  IF here # <<>> THEN here
           ELSE ValidateItemsAbortEarly(items, e, path, i + 1)

\* the items of the array, every one of them (abortEarly: false)
RECURSIVE ValidateItems(_, _, _, _)
ValidateItems(items, e, path, i) ==
  IF i >= Len(e) THEN <<>>
  ELSE ValidateItem(items, ReadIndex(e, i), Append(path, IndexSeg(i)))
         \o ValidateItems(items, e, path, i + 1)

\* the array schema, had its bounds been exclusive
ValidateArrayExclusive(schema, v, path) ==
  CASE v.t = "undefined" -> <<>>
    [] v.t = "array" ->
         ValidateItems(schema.items, v.e, path, 0)
           \o (IF Len(v.e) <= schema.min THEN <<Detail(path, "array.min")>>
               ELSE <<>>)
           \o (IF Len(v.e) >= schema.max THEN <<Detail(path, "array.max")>>
               ELSE <<>>)
    [] OTHER -> <<Detail(path, "array.base")>>

\* Joi.array().min(..).max(..).items(..) on one value
ValidateArray(schema, v, path) ==
  CASE v.t = "undefined" -> <<>>
    [] v.t = "array" ->
         ValidateItems(schema.items, v.e, path, 0)
           \o (IF Len(v.e) < schema.min THEN <<Detail(path, "array.min")>>
               ELSE <<>>)
           \o (IF Len(v.e) > schema.max THEN <<Detail(path, "array.max")>>
               ELSE <<>>)
    [] OTHER -> <<Detail(path, "array.base")>>

ValidateKey(schema, v, path) ==
  IF schema.kind = "array" THEN ValidateArray(schema, v, path)
  ELSE ValidateRule(schema.rule, v, path)

\* schema.validate(formData, { abortEarly: false }), line 176: error.details,
\* empty when there is no error
RECURSIVE ValidateKeys(_, _, _)
ValidateKeys(keys, schema, data) ==
  IF keys = <<>> THEN <<>>
  ELSE ValidateKey(schema[Head(keys)], data[Head(keys)], <<KeySeg(Head(keys))>>)
         \o ValidateKeys(Tail(keys), schema, data)
\* the validation, had the schema been built from the visible fields only
ValidateVisible(fs, data) ==
  ValidateKeys(SchemaKeys(FilterFields(fs, data)),
               Schema(FilterFields(fs, data)), data)

Validate(fs, data) == ValidateKeys(SchemaKeys(fs), Schema(fs), data)

(***************************************************************************)
(* handleSubmit (lines 152-192; 643-646 in the earlier copy).              *)
(***************************************************************************)
\* String(n) for an array index
RECURSIVE NumberToString(_)
NumberToString(n) ==
  IF n < 10 THEN Digits[n + 1]
  ELSE NumberToString(n \div 10) \o Digits[(n % 10) + 1]

SegToString(seg) == IF "n" \in DOMAIN seg THEN NumberToString(seg.n) ELSE seg.s

\* err.path.join('.'), line 180
RECURSIVE Join(_)
Join(path) ==
  IF path = <<>> THEN ""
  ELSE IF Len(path) = 1 THEN SegToString(path[1])
  ELSE SegToString(path[1]) \o "." \o Join(Tail(path))

NoErrors == [k \in {} |-> ""]
\* acc[key] = message
Assign(acc, key, message) ==
  [k \in DOMAIN acc \cup {key} |-> IF k = key THEN message ELSE acc[k]]

\* error.details.reduce(...), lines 179-182
RECURSIVE ReduceDetails(_, _)
ReduceDetails(details, acc) ==
  IF details = <<>> THEN acc
  ELSE ReduceDetails(Tail(details),
                     Assign(acc, Join(Head(details).path), Head(details).message))

Invocation(data) == [data |-> data, handle |-> "setFormData"]

\* SubmitErrors that adds to the map instead of replacing it
SubmitErrorsAccumulate(isLegacy, fs, data, errors) ==
  IF isLegacy THEN errors ELSE ReduceDetails(Validate(fs, data), errors)

\* errorMessages after handleSubmit: line 184 on an error, line 190 without;
\* the earlier copy has no such state
SubmitErrors(isLegacy, fs, data, errors) ==
  IF isLegacy THEN errors
  ELSE LET details == Validate(fs, data)
       IN  IF details # <<>> THEN ReduceDetails(details, NoErrors) ELSE NoErrors

\* SubmitCalls without the return of line 187
SubmitCallsNoReturn(isLegacy, fs, data) == <<Invocation(data)>>

\* the calls of onSubmit handleSubmit makes: none after the return of line
\* 187, the one of line 191 otherwise (line 645 in the earlier copy)
SubmitCalls(isLegacy, fs, data) ==
  IF isLegacy THEN <<Invocation(data)>>
  ELSE IF Validate(fs, data) # <<>> THEN <<>> ELSE <<Invocation(data)>>

(***************************************************************************)
(* The component as a state machine.                                       *)
(***************************************************************************)
(* Rendering (lines 194-228, 375-458, 474-505): which render function a    *)
(* field gets, the entries it lists and the ErrorMap key each one reads.   *)
(***************************************************************************)
\* the dispatch, had it looked at the descriptor only
RendersRepeatableAlways(field, data) == field.repeatable

\* lines 481 and 496: field.repeatable && Array.isArray(formData[field.key])
RendersRepeatable(field, data) ==
  field.repeatable /\ IsArray(data[field.key])

\* formData[field.key]?.map((_, index) => ...), line 412: the indices of
\* the entries listed; map skips holes
RenderedIndices(v) ==
  IF IsArray(v) THEN {i \in 0..(Len(v.e) - 1) : v.e[i + 1] # Hole} ELSE {}

\* lines 387-388: deletable and addable default to true
ShouldDeletable(field, data) ==
  IF Has(field.deletable) THEN EvalPredicate(Val(field.deletable), data) ELSE TRUE
ShouldAddable(field, data) ==
  IF Has(field.addable) THEN EvalPredicate(Val(field.addable), data) ELSE TRUE

\* lines 478-484: the fields without a tab for which the render function
\* does not return null (lines 214 and 389), in order
UntabbedRendered(fs, data) ==
  SelectSeq(fs, LAMBDA f : ~Has(f.tab) /\ Visible(f, data))

\* errorKey of renderField, lines 223-226
ErrorKey(key, index, nestedKey) ==
  IF index # NullIndex /\ nestedKey # NullKey
  THEN key \o "." \o NumberToString(index) \o "." \o nestedKey
  ELSE key

\* errorKey of renderRepeatableField, line 392
GroupErrorKey(field) == field.key

\* the ErrorMap keys that the render functions read for one field: the
\* group's and those of renderField({...nestedField, key: field.key}, index,
\* nestedField.key) (lines 415-421), or the one of renderField(field)
ErrorKeysOf(field, data) ==
  IF RendersRepeatable(field, data)
  THEN {GroupErrorKey(field)}
         \cup {ErrorKey(field.key, i, Val(field.fields)[n].key) :
                 i \in RenderedIndices(data[field.key]),
                 n \in 1..Len(Val(field.fields))}
  ELSE {ErrorKey(field.key, NullIndex, NullKey)}

(***************************************************************************)
VARIABLES
  legacy,          \* which copy of the component is mounted
  groupLimits,     \* the min and max that the fields prop gives the repeatable
                   \* descriptor
  formData,        \* useState(initialValues), line 74
  activeTab,       \* useState(null), line 75: <<>> is null
  errorMessages,   \* useState({}), line 76
  filteredFields,  \* the keys of the visible fields of the last render, in
                   \* order (lines 79-83)
  sharedArrays,    \* keys at which formData holds the very array object that
                   \* the snapshot it superseded holds
  onSubmitCalls,   \* the calls of onSubmit made by the last handler
  lastEvent,       \* the handler that ran last, with the name it was given
                   \* and, for a removal, the index
  crashed          \* an updater threw: the component is unmounted

vars == <<legacy, groupLimits, formData, activeTab, errorMessages, filteredFields,
          sharedArrays, onSubmitCalls, lastEvent, crashed>>

fields == FieldsOf(legacy, groupLimits)

KeysOf(fs) == [i \in 1..Len(fs) |-> fs[i].key]
\* the descriptors of the keys ks, in the order of ks
Descriptors(ks) ==
  [i \in 1..Len(ks) |-> fields[CHOOSE j \in 1..Len(fields) : fields[j].key = ks[i]]]

Event(op, name, index) == [op |-> op, name |-> name, index |-> index]

\* initialValues: the README's { email: '' }, alone and with a group of one
\* entry
InitialValues ==
  { [k \in Keys |-> IF k = "email" THEN Str("") ELSE undefined],
    [k \in Keys |-> IF k = "email" THEN Str("")
                    ELSE IF k = "education" THEN Arr(<<EmptyRecord>>)
                    ELSE undefined] }

\* the values the handlers are given; "notes" and "title" are fields that
\* no event writes (types 'custom' and 'hidden', lines 28 and 35)
ScalarInputs(name) ==
  CASE name = "education" -> {Str("")}
    [] name = "email"     -> {Str(""), Str("x")}
    [] OTHER              -> {}
EntryInputs == {EmptyRecord, MergeInto(EmptyRecord, "school", Str("x"))}
NestedInputs == {<<"school", Str("x")>>, <<"year", Str("x")>>}
RepeatableKeys == {"education"}
\* the limits given to the repeatable descriptor: at most one entry, or at
\* least one
Limits == {[min |-> <<>>, max |-> <<1>>], [min |-> <<1>>, max |-> <<>>]}
Indices == 0..(MaxLen - 1)

ArrayKeys(data) == {k \in Keys : IsArray(data[k])}

Init ==
  /\ legacy \in BOOLEAN
  /\ groupLimits \in (IF legacy THEN {NoLimits} ELSE Limits)
  /\ formData \in InitialValues
  /\ filteredFields = KeysOf(FilterFields(fields, formData))
  /\ activeTab = TabEffect(FilterFields(fields, formData), <<>>)
  /\ errorMessages = NoErrors
  /\ sharedArrays = {}
  /\ onSubmitCalls = <<>>
  /\ lastEvent = Event("mount", NullKey, NullIndex)
  /\ crashed = FALSE

\* the ErrorMap, had an update of the form data dropped the violations
\* reported for the state it replaces
ErrorsClearedByUpdate(errors, next) == NoErrors

\* the ErrorMap after an update of the form data to next: the handlers of
\* lines 107-150 never call setErrorMessages
ErrorsAfterUpdate(errors, next) == errors

\* setFormData(next) followed by the render and the effect of lines 101-105
Commit(next) ==
  /\ formData' = next
  /\ filteredFields' = KeysOf(FilterFields(fields, next))
  /\ activeTab' = TabEffect(FilterFields(fields, next), activeTab)
  /\ onSubmitCalls' = <<>>
  /\ crashed' = FALSE
  /\ errorMessages' = ErrorsAfterUpdate(errorMessages, next)
  /\ UNCHANGED <<legacy, groupLimits>>

\* handleChange(name, value)
SetScalar ==
  \E name \in Keys : \E value \in ScalarInputs(name) :
    /\ ~crashed
    /\ Commit(handleChange(formData, name, value, NullIndex, NullKey))
    /\ sharedArrays' = ArrayKeys(formData) \ {name}
    /\ lastEvent' = Event("setScalar", name, NullIndex)

\* handleChange(name, value, index)
SetRepeatableEntry ==
  \E name \in RepeatableKeys : \E index \in Indices : \E value \in EntryInputs :
    /\ ~crashed
    /\ Commit(handleChange(formData, name, value, index, NullKey))
    /\ sharedArrays' = (ArrayKeys(formData) \ {name})
                         \cup {k \in {name} : WritesInPlace(formData, name, index)}
    /\ lastEvent' = Event("setRepeatableEntry", name, NullIndex)

\* handleChange(name, value, index, nestedKey)
SetRepeatableField ==
  \E name \in RepeatableKeys : \E index \in Indices : \E nv \in NestedInputs :
    /\ ~crashed
    /\ Commit(handleChange(formData, name, nv[2], index, nv[1]))
    /\ sharedArrays' = (ArrayKeys(formData) \ {name})
                         \cup {k \in {name} : WritesInPlace(formData, name, index)}
    /\ lastEvent' = Event("setRepeatableField", name, NullIndex)

\* handleAddRepeatable(name)
AddRepeatableEntry ==
  \E name \in RepeatableKeys :
    /\ ~crashed
    /\ IsArray(formData[name]) => Len(formData[name].e) < MaxLen
    /\ Commit(handleAddRepeatable(formData, name, legacy))
    /\ sharedArrays' = ArrayKeys(formData) \ {name}
    /\ lastEvent' = Event("add", name, NullIndex)

\* handleRemoveRepeatable(name, index)
RemoveRepeatableEntry ==
  \E name \in RepeatableKeys : \E index \in Indices :
    /\ ~crashed
    /\ lastEvent' = Event("remove", name, index)
    /\ IF RemoveThrows(formData, name)
       THEN /\ crashed' = TRUE
            /\ onSubmitCalls' = <<>>
            /\ UNCHANGED <<legacy, groupLimits, formData, activeTab, errorMessages,
                           filteredFields, sharedArrays>>
       ELSE /\ Commit(handleRemoveRepeatable(formData, name, index))
            /\ sharedArrays' = ArrayKeys(formData) \ {name}

\* handleSubmit(e)
Submit ==
  /\ ~crashed
  /\ errorMessages' = SubmitErrors(legacy, fields, formData, errorMessages)
  /\ onSubmitCalls' = SubmitCalls(legacy, fields, formData)
  /\ lastEvent' = Event("submit", NullKey, NullIndex)
  /\ UNCHANGED <<legacy, groupLimits, formData, activeTab, filteredFields, sharedArrays,
                 crashed>>

\* onValueChange of the Tabs, line 488
SwitchTab ==
  \E i \in 1..Len(TabNames(Descriptors(filteredFields))) :
    /\ ~crashed
    /\ activeTab' = <<TabNames(Descriptors(filteredFields))[i]>>
    /\ onSubmitCalls' = <<>>
    /\ lastEvent' = Event("tab", NullKey, NullIndex)
    /\ UNCHANGED <<legacy, groupLimits, formData, errorMessages, filteredFields,
                   sharedArrays, crashed>>

Next ==
  \/ SetScalar
  \/ SetRepeatableEntry
  \/ SetRepeatableField
  \/ AddRepeatableEntry
  \/ RemoveRepeatableEntry
  \/ Submit
  \/ SwitchTab

Spec == Init /\ [][Next]_vars

(***************************************************************************)
(* The events that the rendered form can raise (lines 194-505): a handler  *)
(* runs only through a control that the last render has put on the page.   *)
(* Every visible field counts as on the page, whichever tab is selected.   *)
(***************************************************************************)
\* the descriptors that the render functions do not return null for
Rendered == {x \in 1..Len(fields) : Visible(fields[x], formData)}

\* onChange of the input that renderField(field) draws
ChangeField ==
  \E x \in Rendered : \E value \in ScalarInputs(fields[x].key) :
    /\ ~crashed
    /\ ~RendersRepeatable(fields[x], formData)
    /\ Commit(handleChange(formData, fields[x].key, value, NullIndex, NullKey))
    /\ sharedArrays' = ArrayKeys(formData) \ {fields[x].key}
    /\ lastEvent' = Event("setScalar", fields[x].key, NullIndex)

\* onChange of a nested input of a listed entry (lines 412-421)
ChangeNestedField ==
  \E x \in Rendered : \E nv \in NestedInputs :
    \E index \in RenderedIndices(formData[fields[x].key]) :
      LET name == fields[x].key
      IN  /\ ~crashed
          /\ RendersRepeatable(fields[x], formData)
          /\ \E n \in 1..Len(Val(fields[x].fields)) :
                Val(fields[x].fields)[n].key = nv[1]
          /\ Commit(handleChange(formData, name, nv[2], index, nv[1]))
          /\ sharedArrays' = (ArrayKeys(formData) \ {name})
                               \cup {k \in {name} : WritesInPlace(formData, name, index)}
          /\ lastEvent' = Event("setRepeatableField", name, NullIndex)

\* onClick of the add button (lines 445-454)
ClickAdd ==
  \E x \in Rendered :
    LET name == fields[x].key
    IN  /\ ~crashed
        /\ RendersRepeatable(fields[x], formData)
        /\ ShouldAddable(fields[x], formData)
        /\ IsArray(formData[name]) => Len(formData[name].e) < MaxLen
        /\ Commit(handleAddRepeatable(formData, name, legacy))
        /\ sharedArrays' = ArrayKeys(formData) \ {name}
        /\ lastEvent' = Event("add", name, NullIndex)

\* onClick of the remove button of a listed entry (lines 426-440)
ClickRemove ==
  \E x \in Rendered : \E index \in RenderedIndices(formData[fields[x].key]) :
    LET name == fields[x].key
    IN  /\ ~crashed
        /\ RendersRepeatable(fields[x], formData)
        /\ ShouldDeletable(fields[x], formData)
        /\ lastEvent' = Event("remove", name, index)
        /\ IF RemoveThrows(formData, name)
           THEN /\ crashed' = TRUE
                /\ onSubmitCalls' = <<>>
                /\ UNCHANGED <<legacy, groupLimits, formData, activeTab,
                               errorMessages, filteredFields, sharedArrays>>
           ELSE /\ Commit(handleRemoveRepeatable(formData, name, index))
                /\ sharedArrays' = ArrayKeys(formData) \ {name}

NextUI ==
  \/ ChangeField
  \/ ChangeNestedField
  \/ ClickAdd
  \/ ClickRemove
  \/ Submit
  \/ SwitchTab

SpecUI == Init /\ [][NextUI]_vars

(***************************************************************************)
(* What the specification says, stated without the code's own operators    *)
(* for validation and flattening.                                          *)
(***************************************************************************)
\* v breaks the rule "required string"
RequiredViolated(v) == v.t # "string" \/ v.v = ""

\* v breaks the rule named
RuleViolated(rule, v) ==
  IF rule = "requiredArray" THEN ~IsArray(v) ELSE RequiredViolated(v)

\* the entry of index i (0-based) of the array held for key k, if any
EntryAt(data, k, i) ==
  IF IsArray(data[k]) /\ i < Len(data[k].e) THEN ReadIndex(data[k].e, i)
  ELSE undefined

ItemPath(k, i) == k \o "." \o NumberToString(i)
NestedPath(k, i, n) == k \o "." \o NumberToString(i) \o "." \o n

\* the paths at which data breaks a rule of the schema built from fs
ViolatingPaths(fs, data) ==
  LET schema == Schema(fs)
      ruled  == {k \in Keys : schema[k].kind = "rule"}
      arrays == {k \in Keys : schema[k].kind = "array"}
      slots(k) == IF IsArray(data[k]) THEN 0..(Len(data[k].e) - 1) ELSE {}
      ruledNested(k) == {schema[k].items[j].key : j \in 1..Len(schema[k].items)}
  IN  {k \in ruled : RequiredViolated(data[k])}
        \cup {k \in arrays : /\ data[k] # undefined
                             /\ \/ ~IsArray(data[k])
                                \/ Len(data[k].e) < schema[k].min
                                \/ Len(data[k].e) > schema[k].max}
        \cup UNION {{ItemPath(k, i) : i \in {j \in slots(k) :
                        EntryAt(data, k, j) = undefined}} : k \in arrays}
        \cup UNION {UNION {{NestedPath(k, i, n) : n \in {m \in ruledNested(k) :
                        /\ IsObject(EntryAt(data, k, i))
                        /\ RequiredViolated(EntryAt(data, k, i).f[m])}}
                      : i \in slots(k)} : k \in arrays}

\* the violations a validation of the current state finds; the earlier copy
\* of the component validates nothing
Violations == IF legacy THEN {} ELSE ViolatingPaths(fields, formData)

C2_SnapshotsImmutable ==
  [][\A k \in sharedArrays' : formData'[k] = formData[k]]_vars

(***************************************************************************)
(* C3: every mutation of the store completes without failing.              *)
(***************************************************************************)
C3_MutationsTotal == ~crashed

(***************************************************************************)
(* C4: every index of the array held for a repeatable field holds a        *)
(* record, never an undefined or missing element.                          *)
(***************************************************************************)
C4_NoHoles ==
  \A k \in RepeatableKeys :
    IsArray(formData[k]) =>
      \A i \in 1..Len(formData[k].e) : IsObject(formData[k].e[i])

(***************************************************************************)
(* C5: removeRepeatableEntry(key, i) on an array of length n, 0 <= i < n,  *)
(* yields an array of length n-1; entries below i are unchanged, each      *)
(* entry formerly at j > i is at j-1, and the other keys are unchanged.    *)
(***************************************************************************)
C5_RemoveShifts ==
  [][(lastEvent'.op = "remove" /\ ~crashed'
        /\ lastEvent'.index < Len(formData[lastEvent'.name].e)) =>
       LET k == lastEvent'.name
           i == lastEvent'.index
           n == Len(formData[k].e)
       IN  /\ IsArray(formData'[k])
           /\ Len(formData'[k].e) = n - 1
           /\ \A j \in 0..(i - 1) :
                EntryAt(formData', k, j) = EntryAt(formData, k, j)
           /\ \A j \in (i + 1)..(n - 1) :
                EntryAt(formData', k, j - 1) = EntryAt(formData, k, j)
           /\ \A other \in Keys \ {k} : formData'[other] = formData[other]]_vars

(***************************************************************************)
(* C6: addRepeatableEntry(key) appends exactly one empty record at the end *)
(* of the array for key and keeps the existing entries in order; on an     *)
(* absent key the result is a one-element array holding one empty record.  *)
(***************************************************************************)
C6_AddAppendsEmpty ==
  [][(lastEvent'.op = "add"
        /\ (IsArray(formData[lastEvent'.name])
              \/ formData[lastEvent'.name] = undefined)) =>
       LET k == lastEvent'.name
           n == IF IsArray(formData[k]) THEN Len(formData[k].e) ELSE 0
       IN  /\ IsArray(formData'[k])
           /\ Len(formData'[k].e) = n + 1
           /\ formData'[k].e[n + 1] = EmptyRecord
           /\ \A j \in 0..(n - 1) :
                EntryAt(formData', k, j) = EntryAt(formData, k, j)]_vars

(***************************************************************************)
(* C7: setRepeatableField(key, index, nestedKey, value) merges: the record *)
(* at index has nestedKey = value and keeps every other key; every other   *)
(* entry of the array and every other top-level key is unchanged.          *)
(***************************************************************************)
C7_SetFieldMerges ==
  \A k \in RepeatableKeys : \A i \in Indices : \A nv \in NestedInputs :
    LET next == handleChange(formData, k, nv[2], i, nv[1])
        old == EntryAt(formData, k, i)
        new == EntryAt(next, k, i)
    IN  /\ IsObject(new)
        /\ new.f[nv[1]] = nv[2]
        /\ \A m \in NestedKeys \ {nv[1]} :
             new.f[m] = IF IsObject(old) THEN old.f[m] ELSE undefined
        /\ \A j \in 0..MaxLen : j # i => EntryAt(next, k, j) = EntryAt(formData, k, j)
        /\ \A other \in Keys \ {k} : next[other] = formData[other]

\* a nested field has just been set in a record that held another key, and
\* the record holds both
C7_Witness ==
  /\ lastEvent.op = "setRepeatableField"
  /\ \E i \in Indices :
       /\ IsObject(EntryAt(formData, "education", i))
       /\ EntryAt(formData, "education", i).f["school"] = Str("x")
       /\ EntryAt(formData, "education", i).f["year"] = Str("x")

(***************************************************************************)
(* C8: a field is visible iff (show absent or show(S)) and not (hide       *)
(* present and hide(S)), S being the current state: hide wins when both    *)
(* hold, a field with neither is always visible, and the decision is never *)
(* one made from an earlier state.                                         *)
(***************************************************************************)
C8_Visibility ==
  \A i \in 1..Len(fields) :
    LET f == fields[i]
    IN  (\E j \in 1..Len(filteredFields) : filteredFields[j] = f.key)
          <=> /\ ~Has(f.show) \/ EvalPredicate(Val(f.show), formData)
              /\ ~(Has(f.hide) /\ EvalPredicate(Val(f.hide), formData))

\* after an update, show and hide of the education group both hold and the
\* group is not among the visible fields
C8_Witness ==
  /\ lastEvent.op \notin {"mount", "submit", "tab"}
  /\ EvalPredicate("emailFilled", formData)
  /\ EvalPredicate("educationFull", formData)
  /\ \A j \in 1..Len(filteredFields) : filteredFields[j] # "education"

C10_NestedErrorKeys ==
  lastEvent.op = "submit" =>
    \A x \in 1..Len(fields) :
      (fields[x].repeatable /\ Has(fields[x].fields)) =>
        \A y \in 1..Len(Val(fields[x].fields)) :
          Has(Val(fields[x].fields)[y].rule) =>
            \A i \in 0..MaxLen :
              LET k == fields[x].key
                  n == Val(fields[x].fields)[y].key
              IN  (NestedPath(k, i, n) \in DOMAIN errorMessages)
                    <=> /\ IsObject(EntryAt(formData, k, i))
                        /\ RequiredViolated(EntryAt(formData, k, i).f[n])

\* the example of the specification: of two entries only the first lacks
\* its school
C10_Witness ==
  /\ lastEvent.op = "submit"
  /\ IsArray(formData["education"])
  /\ Len(formData["education"].e) = 2
  /\ "education.0.school" \in DOMAIN errorMessages
  /\ "education.1.school" \notin DOMAIN errorMessages
  /\ IsObject(EntryAt(formData, "education", 1))

\* the positions, in the descriptor list, of the visible fields with a tab
VisibleTabbed(data) ==
  {i \in 1..Len(fields) : Visible(fields[i], data) /\ Has(fields[i].tab)}

\* the names of the tab groups of a render that found the keys ks visible,
\* as that render lists them
RenderedTabs(ks) == TabNames(Descriptors(ks))

C12_OwnRuleRegistered ==
  (lastEvent.op = "submit" /\ ~legacy) =>
    \A x \in 1..Len(fields) :
      (Has(fields[x].rule)
         /\ RuleViolated(Val(fields[x].rule), formData[fields[x].key]))
        => fields[x].key \in DOMAIN errorMessages

(***************************************************************************)
(* C13: after a submit, every key of the ErrorMap is the key that the      *)
(* render functions read for some field of the descriptor list, a plain    *)
(* key for a top-level field or a group and key.index.nestedKey for a      *)
(* nested field of an entry; and no key is read for two fields.            *)
(***************************************************************************)
C13_ErrorKeysAreLookupKeys ==
  /\ lastEvent.op = "submit" =>
       \A k \in DOMAIN errorMessages :
         \E x \in 1..Len(fields) : k \in ErrorKeysOf(fields[x], formData)
  /\ \A x, y \in 1..Len(fields) :
       x # y => ErrorKeysOf(fields[x], formData)
                  \cap ErrorKeysOf(fields[y], formData) = {}

(***************************************************************************)
(* C14: after a submit of a state where a repeatable descriptor with       *)
(* sub-fields holds an array of length L, with lo the descriptor's min (0  *)
(* when absent) and hi its max (1000 when absent): if lo <= L <= hi the    *)
(* ErrorMap has no entry at the plain key, and otherwise it has a length   *)
(* violation there and onSubmit was not called.                            *)
(***************************************************************************)
C14_LengthBounds ==
  (lastEvent.op = "submit" /\ ~legacy) =>
    \A x \in 1..Len(fields) :
      LET f == fields[x]
          k == f.key
      IN  (f.repeatable /\ Has(f.fields) /\ IsArray(formData[k])) =>
            LET L  == Len(formData[k].e)
                lo == IF Has(f.min) THEN Val(f.min) ELSE 0
                hi == IF Has(f.max) THEN Val(f.max) ELSE 1000
            IN  IF lo <= L /\ L <= hi
                THEN k \notin DOMAIN errorMessages
                ELSE /\ k \in DOMAIN errorMessages
                     /\ errorMessages[k] \in {"array.min", "array.max"}
                     /\ onSubmitCalls = <<>>

\* a submit has refused a group that is too short while every other rule is
\* kept
C14_Witness ==
  /\ lastEvent.op = "submit"
  /\ formData["education"] = Arr(<<>>)
  /\ DOMAIN errorMessages = {"education"}
  /\ errorMessages["education"] = "array.min"

\* a submit has refused a group that is too long
C14_WitnessTooLong ==
  /\ lastEvent.op = "submit"
  /\ IsArray(formData["education"])
  /\ "education" \in DOMAIN errorMessages
  /\ errorMessages["education"] = "array.max"

\* a submit has accepted a group whose length is at a bound
C14_WitnessAtBound ==
  /\ lastEvent.op = "submit"
  /\ IsArray(formData["education"])
  /\ Len(formData["education"].e) = 1
  /\ Len(onSubmitCalls) = 1

\* the number of times key k occurs in the sequence ks
Occurrences(ks, k) == Cardinality({i \in 1..Len(ks) : ks[i] = k})
\* the position of key k in the descriptor list
Position(k) == CHOOSE x \in 1..Len(fields) : fields[x].key = k
\* the least position of a visible field of tab t
FirstOf(t) ==
  CHOOSE x \in VisibleTabbed(formData) :
    /\ Val(fields[x].tab) = t
    /\ \A y \in VisibleTabbed(formData) : Val(fields[y].tab) = t => x <= y

(***************************************************************************)
(* C15: in every state, with the tab groups as the last render lists them, *)
(* a visible field with a tab is once in the group of its tab and in no    *)
(* other group nor among the untabbed fields; a visible field without a    *)
(* tab is once among the untabbed fields and in no group; a hidden field   *)
(* is in neither; every group name is the tab of a visible field and       *)
(* occurs once; group names are ordered by the position of their first     *)
(* visible field, and the fields of a group by their position.             *)
(***************************************************************************)
C15_TabGroups ==
  LET filtered == Descriptors(filteredFields)
      names    == TabNames(filtered)
      group(t) == KeysOf(TabGroup(filtered, t))
      untabbed == KeysOf(UntabbedRendered(fields, formData))
      inGroups(k) == {i \in 1..Len(names) : Occurrences(group(names[i]), k) > 0}
  IN  /\ \A x \in 1..Len(fields) :
           LET f == fields[x]
               k == f.key
           IN  IF ~Visible(f, formData)
               THEN inGroups(k) = {} /\ Occurrences(untabbed, k) = 0
               ELSE IF Has(f.tab)
               THEN /\ \A i \in 1..Len(names) :
                         Occurrences(group(names[i]), k)
                           = IF names[i] = Val(f.tab) THEN 1 ELSE 0
                    /\ inGroups(k) # {}
                    /\ Occurrences(untabbed, k) = 0
               ELSE inGroups(k) = {} /\ Occurrences(untabbed, k) = 1
      /\ \A i \in 1..Len(names) :
           /\ Occurrences(names, names[i]) = 1
           /\ \E x \in VisibleTabbed(formData) : Val(fields[x].tab) = names[i]
      /\ \A i, j \in 1..Len(names) :
           i < j => FirstOf(names[i]) < FirstOf(names[j])
      /\ \A i \in 1..Len(names) :
           \A a, b \in 1..Len(group(names[i])) :
             a < b => Position(group(names[i])[a]) < Position(group(names[i])[b])
      /\ \A a, b \in 1..Len(untabbed) :
           a < b => Position(untabbed[a]) < Position(untabbed[b])

(***************************************************************************)
(* C16: only a submit changes the ErrorMap: an edit, an addition, a        *)
(* removal and a tab switch leave it as it is, whatever they do to the     *)
(* entries its keys name.                                                  *)
(***************************************************************************)
C16_ErrorMapFrame ==
  [][errorMessages' # errorMessages => lastEvent'.op = "submit"]_vars

\* after a removal the ErrorMap still names entry 0 of a group that has no
\* entry left
C16_Witness ==
  /\ lastEvent.op = "remove"
  /\ "education.0.school" \in DOMAIN errorMessages
  /\ formData["education"] = Arr(<<>>)

\* after a removal the key of entry 0 names the entry that was entry 1 and
\* breaks no rule
C16_WitnessShifted ==
  /\ lastEvent.op = "remove"
  /\ "education.0.school" \in DOMAIN errorMessages
  /\ "education.1.school" \notin DOMAIN errorMessages
  /\ IsObject(EntryAt(formData, "education", 0))
  /\ ~RequiredViolated(EntryAt(formData, "education", 0).f["school"])

C18_WitnessNoArray ==
  /\ lastEvent = Event("setScalar", "education", NullIndex)
  /\ ~IsArray(formData["education"])
  /\ \E j \in 1..Len(filteredFields) : filteredFields[j] = "education"

====
